---- MODULE Spec2Model ----
(***************************************************************************)
(* Composition resolution and concentration algebra of                     *)
(* atomic_concentrations (src/materials.py): Element, Mixture, Material.   *)
(*                                                                         *)
(* Numbers.  A Python float is a binary floating-point number: a value     *)
(* is a rational <<n, d>> in lowest terms with d > 0, and every parse and  *)
(* every arithmetic operation rounds its exact result to Precision         *)
(* significant bits, to nearest with ties to even, as IEEE 754 does with   *)
(* 53 bits.  Exponents are unbounded: no overflow to infinity and no       *)
(* subnormal numbers.  Concentrations are carried in units of              *)
(* Mixture.AVOGADRO (0.602214076, src/materials.py:114): the stored value  *)
(* c stands for the float AVOGADRO * c.  The constant is a positive common *)
(* factor of every concentration, so signs, zero tests and comparisons     *)
(* against a threshold expressed in the same unit are kept.                *)
(*                                                                         *)
(* Text.  A Python str is a sequence of one-character strings; None and    *)
(* the empty str (both falsy, and told apart by no test of the code) are   *)
(* the empty sequence.                                                     *)
(***************************************************************************)
EXTENDS Integers, Sequences, FiniteSets, TLC

VARIABLES table, objs, dicts, result

vars == <<table, objs, dicts, result>>

-----------------------------------------------------------------------------
(* Float arithmetic: rationals rounded to Precision significant bits.      *)

Abs(n) == IF n < 0 THEN -n ELSE n

RECURSIVE GCD(_, _)
GCD(a, b) == IF b = 0 THEN a ELSE GCD(b, a % b)

\* significant bits of a float (53 in CPython)
Precision == 6

RECURSIVE Pow2(_)
Pow2(k) == IF k = 0 THEN 1 ELSE 2 * Pow2(k - 1)

Half == Pow2(Precision - 1)
Full == Pow2(Precision)

Reduced(n, d, g) == IF d < 0 THEN <<(-n) \div g, (-d) \div g>>
                    ELSE <<n \div g, d \div g>>

Lowest(n, d) == Reduced(n, d, GCD(Abs(n), Abs(d)))

\* round to nearest, ties to even
TiesToEven(q, r, d) ==
  IF 2 * r > d \/ (2 * r = d /\ q % 2 = 1) THEN q + 1 ELSE q

\* n / d > 0 rounded to Precision significant bits, times up / down
RECURSIVE Rounded(_, _, _, _)
Rounded(n, d, up, down) ==
  IF n \div Half < d THEN Rounded(2 * n, d, up, 2 * down)
  ELSE IF n \div Full >= d THEN Rounded(n, 2 * d, 2 * up, down)
  ELSE Lowest(TiesToEven(n \div d, n % d, d) * up, down)

Negated(x) == <<-x[1], x[2]>>

RoundedLowest(x) ==
  IF x[2] = 1 /\ Abs(x[1]) < Full THEN x
  ELSE IF x[1] < 0 THEN Negated(Rounded(-x[1], x[2], 1, 1))
  ELSE Rounded(x[1], x[2], 1, 1)

R(n, d) == RoundedLowest(Lowest(n, d))

RZero == <<0, 1>>
ROne == <<1, 1>>
SumOver(a, b, g) ==
  R(a[1] * (b[2] \div g) + b[1] * (a[2] \div g), a[2] * (b[2] \div g))
RAdd(a, b) == SumOver(a, b, GCD(a[2], b[2]))
RMul(a, b) == R(a[1] * b[1], a[2] * b[2])
RDiv(a, b) == R(a[1] * b[2], a[2] * b[1])
RLt(a, b) == a[1] * b[2] < b[1] * a[2]
RGeq(a, b) == ~RLt(a, b)
RMin(a, b) == IF RLt(b, a) THEN b ELSE a

NaN == <<0, 0>>
NotNa(x) == x # NaN

-----------------------------------------------------------------------------
(* Characters and the conversions between text and numbers.                *)

Upper == {"A", "B", "C", "D", "E", "F", "G", "H", "I", "J", "K", "L", "M",
          "N", "O", "P", "Q", "R", "S", "T", "U", "V", "W", "X", "Y", "Z"}
Lower == {"a", "b", "c", "d", "e", "f", "g", "h", "i", "j", "k", "l", "m",
          "n", "o", "p", "q", "r", "s", "t", "u", "v", "w", "x", "y", "z"}
DigitChars == <<"0", "1", "2", "3", "4", "5", "6", "7", "8", "9">>
Digits == {DigitChars[i] : i \in 1..10}
DigitVal(c) == (CHOOSE i \in 1..10 : DigitChars[i] = c) - 1

NoName == <<>>
Truthy(s) == s # <<>>

\* str(n) for n >= 0
RECURSIVE StrOfNat(_)
StrOfNat(n) ==
  IF n < 10 THEN <<DigitChars[n + 1]>>
  ELSE StrOfNat(n \div 10) \o <<DigitChars[(n % 10) + 1]>>

\* f"{n:03}"
Pad3(n) ==
  LET s == StrOfNat(n)
  IN  IF Len(s) >= 3 THEN s
      ELSE [i \in 1..(3 - Len(s)) |-> "0"] \o s

\* str.isdigit(): non-empty and every character a digit
IsDigit(s) == Len(s) > 0 /\ \A i \in 1..Len(s) : s[i] \in Digits

\* int(s) of a digit string
RECURSIVE IntOf(_)
IntOf(s) ==
  IF Len(s) = 0 THEN 0
  ELSE 10 * IntOf(SubSeq(s, 1, Len(s) - 1)) + DigitVal(s[Len(s)])

RECURSIVE Pow10(_)
Pow10(n) == IF n = 0 THEN 1 ELSE 10 * Pow10(n - 1)

\* first index j >= i with s[j] outside class (Len(s)+1 when there is none)
RECURSIVE SpanEnd(_, _, _)
SpanEnd(s, i, class) ==
  IF i <= Len(s) /\ s[i] \in class THEN SpanEnd(s, i + 1, class) ELSE i

\* float(s) for a text matched by \d*\.?\d* : a record with ok = FALSE
\* stands for ValueError (no digit at all, as in ".")
ParseFloat(s) ==
  LET dot == SpanEnd(s, 1, Digits)
      ip == SubSeq(s, 1, dot - 1)
      fp == IF dot <= Len(s) THEN SubSeq(s, dot + 1, Len(s)) ELSE <<>>
  IN  IF Len(ip) + Len(fp) = 0
      THEN [ok |-> FALSE, val |-> RZero]
      ELSE [ok |-> TRUE, val |-> R(IntOf(ip \o fp), Pow10(Len(fp)))]

-----------------------------------------------------------------------------
(* The reference isotope table (NIST_DATA).  The rows come from            *)
(* data/nist_isotopic_compositions.csv, which the program only reads; the  *)
(* model takes the table as an input with one of two layouts.  Weights,    *)
(* masses and abundances are small stand-ins for the physical values.      *)

Row(el, z, a, m, w, comp) ==
  [element |-> el, atomic_number |-> z, mass_number |-> a,
   isotope_atomic_mass |-> m, element_atomic_weight |-> w,
   isotopic_composition |-> comp]

CommonRows ==
  << Row(<<"B">>, 5, 10, R(10, 1), R(11, 1), R(1, 5)),
     Row(<<"B">>, 5, 11, R(11, 1), R(11, 1), R(4, 5)),
     Row(<<"C">>, 6, 12, R(12, 1), R(12, 1), R(9, 10)),
     Row(<<"C">>, 6, 13, R(13, 1), R(12, 1), R(1, 10)),
     Row(<<"C">>, 6, 14, R(14, 1), R(12, 1), NaN),
     Row(<<"O">>, 8, 16, R(16, 1), R(16, 1), R(9, 10)),
     Row(<<"O">>, 8, 18, R(18, 1), R(16, 1), R(1, 10)),
     Row(<<"T", "c">>, 43, 97, R(97, 1), R(98, 1), NaN),
     Row(<<"T", "c">>, 43, 98, R(98, 1), R(98, 1), NaN),
     Row(<<"T", "c">>, 43, 99, R(99, 1), R(98, 1), NaN) >>

\* every hydrogen isotope is a row of element H
TableByElement ==
  << Row(<<"H">>, 1, 1, R(1, 1), R(1, 1), R(9, 10)),
     Row(<<"H">>, 1, 2, R(2, 1), R(1, 1), R(1, 10)),
     Row(<<"H">>, 1, 3, R(3, 1), R(1, 1), NaN) >> \o CommonRows

\* deuterium and tritium are rows of their own symbols D and T
TableBySymbol ==
  << Row(<<"H">>, 1, 1, R(1, 1), R(1, 1), R(9, 10)),
     Row(<<"D">>, 1, 2, R(2, 1), R(1, 1), R(1, 10)),
     Row(<<"T">>, 1, 3, R(3, 1), R(1, 1), NaN) >> \o CommonRows

Tables == {TableByElement, TableBySymbol}

-----------------------------------------------------------------------------
(* Results of calls: a returned value or a raised exception.               *)

NoExc == [type |-> "", text |-> "", symbol |-> <<>>]
Ok(v) == [ok |-> TRUE, val |-> v, exc |-> NoExc]
Raise(type, text, symbol) ==
  [ok |-> FALSE, val |-> <<>>,
   exc |-> [type |-> type, text |-> text, symbol |-> symbol]]

None == <<>>

-----------------------------------------------------------------------------
(* class Isotope                                                           *)

\* the isotope_code property: f"{atomic_number}{mass_number:03}"
IsotopeCode(atomic_number, mass_number) ==
  StrOfNat(atomic_number) \o Pad3(mass_number)

Isotope(atomic_number, mass_number, atomic_mass, atomic_weight, abundance) ==
  [atomic_number |-> atomic_number, mass_number |-> mass_number,
   isotope_code |-> IsotopeCode(atomic_number, mass_number),
   atomic_mass |-> atomic_mass, atomic_weight |-> atomic_weight,
   abundance |-> abundance, concentration |-> None]

-----------------------------------------------------------------------------
(* class Element                                                           *)

HasDigit(s) == \E i \in 1..Len(s) : s[i] \in Digits
FirstDigit(s) == CHOOSE i \in 1..Len(s) :
                   s[i] \in Digits /\ \A j \in 1..(i - 1) : s[j] \notin Digits
\* re.search(r"\d+", s).group(0)
FirstDigitRun(s) == SubSeq(s, FirstDigit(s), SpanEnd(s, FirstDigit(s), Digits) - 1)
\* re.sub(r"\d+", "", s)
RemoveDigits(s) == SelectSeq(s, LAMBDA c : c \notin Digits)

\* mass_number after lines 55-64; 0 stands for None (both are falsy, and
\* the value is only ever tested for truth before it is used)
MassNumberOf(symbol) ==
  IF HasDigit(symbol) THEN IntOf(FirstDigitRun(symbol))
  ELSE IF symbol = <<"D">> THEN 2
  ELSE IF symbol = <<"T">> THEN 3
  ELSE 0

\* search_symbol after lines 57-64: the assignment "H" of line 59 is always
\* overwritten, by line 62 or by the else branch of line 64
SearchSymbolOf(symbol) ==
  IF HasDigit(symbol) THEN RemoveDigits(symbol) ELSE symbol

\* data = NIST_DATA[params]
SelectRows(tbl, search_symbol, mass_number) ==
  SelectSeq(tbl, LAMBDA row :
    /\ row.element = search_symbol
    /\ (mass_number # 0 => row.mass_number = mass_number))

\* the loop of lines 75-87
IsotopesOfRows(data, mass_number) ==
  LET kept == SelectSeq(data, LAMBDA row :
                mass_number # 0 \/ NotNa(row.isotopic_composition))
  IN  [i \in 1..Len(kept) |->
         Isotope(kept[i].atomic_number, kept[i].mass_number,
                 kept[i].isotope_atomic_mass, kept[i].element_atomic_weight,
                 IF mass_number = 0 THEN kept[i].isotopic_composition
                 ELSE ROne)]

\* lines 72-73 left out: an empty selection gives an empty Element
ElementIsotopesUnchecked(symbol, mass_number, data) ==
  Ok(IsotopesOfRows(data, mass_number))

\* lines 72-87, given mass_number and data
ElementIsotopes(symbol, mass_number, data) ==
  IF Len(data) = 0
  THEN Raise("ValueError", "Element/Isotope not found", symbol)
  ELSE Ok(IsotopesOfRows(data, mass_number))

\* Element(symbol): the isotopes list, or ValueError
RetrieveComposition(tbl, symbol) ==
  ElementIsotopes(symbol, MassNumberOf(symbol),
                  SelectRows(tbl, SearchSymbolOf(symbol), MassNumberOf(symbol)))

-----------------------------------------------------------------------------
(* class Mixture                                                           *)

\* re.findall(r"([A-Z][a-z]?)(\d*\.?\d*)", formula)
RECURSIVE FindAllFrom(_, _)
FindAllFrom(s, i) ==
  IF i > Len(s) THEN <<>>
  ELSE IF s[i] \in Upper
  THEN LET e1 == IF i + 1 <= Len(s) /\ s[i + 1] \in Lower THEN i + 2 ELSE i + 1
           e2 == SpanEnd(s, e1, Digits)
           e3 == IF e2 <= Len(s) /\ s[e2] = "." THEN e2 + 1 ELSE e2
           e4 == SpanEnd(s, e3, Digits)
       IN  << <<SubSeq(s, i, e1 - 1), SubSeq(s, e1, e4 - 1)>> >>
             \o FindAllFrom(s, e4)
  ELSE FindAllFrom(s, i + 1)

ElementAmounts(formula) == FindAllFrom(formula, 1)

\* float(fraction) if fraction else 1.0
FractionOf(text) ==
  IF Truthy(text) THEN ParseFloat(text) ELSE [ok |-> TRUE, val |-> ROne]

BadFloat(text) == Raise("ValueError", "could not convert string to float", text)

\* line 144 with the quantity clamped to at least one atom
MolarMassStepClamped(element, fraction, amount, mass) ==
  IF ~element.ok THEN element
  ELSE IF ~fraction.ok THEN BadFloat(amount[2])
  ELSE IF Len(element.val) = 0
  THEN Raise("IndexError", "list index out of range", amount[1])
  ELSE Ok(RAdd(mass, RMul(element.val[1].atomic_weight,
                          IF RLt(fraction.val, ROne) THEN ROne ELSE fraction.val)))

\* lines 142-144 for one token: the mass after it, or what it raises
MolarMassStep(element, fraction, amount, mass) ==
  IF ~element.ok THEN element
  ELSE IF ~fraction.ok THEN BadFloat(amount[2])
  ELSE IF Len(element.val) = 0
  THEN Raise("IndexError", "list index out of range", amount[1])
  ELSE Ok(RAdd(mass, RMul(element.val[1].atomic_weight, fraction.val)))

\* calculate_molar_mass: the loop from token i on, mass accumulated so far
RECURSIVE MolarMassFrom(_, _, _, _)
RECURSIVE MolarMassNext(_, _, _, _)
MolarMassFrom(tbl, amounts, i, mass) ==
  IF i > Len(amounts) THEN Ok(mass)
  ELSE MolarMassNext(tbl, amounts, i,
         MolarMassStep(RetrieveComposition(tbl, amounts[i][1]),
                       FractionOf(amounts[i][2]), amounts[i], mass))

MolarMassNext(tbl, amounts, i, step) ==
  IF ~step.ok THEN step ELSE MolarMassFrom(tbl, amounts, i + 1, step.val)

calculate_molar_mass(tbl, amounts) == MolarMassFrom(tbl, amounts, 1, RZero)

\* total_weight_parts of lines 124-126
RECURSIVE WeightPartsFrom(_, _, _)
RECURSIVE WeightPartsNext(_, _, _, _)
WeightPartsFrom(amounts, i, total) ==
  IF i > Len(amounts) THEN Ok(total)
  ELSE WeightPartsNext(amounts, i, total, FractionOf(amounts[i][2]))

WeightPartsNext(amounts, i, total, fraction) ==
  IF ~fraction.ok THEN BadFloat(amounts[i][2])
  ELSE WeightPartsFrom(amounts, i + 1, RAdd(total, fraction.val))

ZeroDivision == Raise("ZeroDivisionError", "float division by zero", <<>>)

\* lines 155-163 for one isotope: its concentration, in units of AVOGADRO
IsotopeConcentration(iso, density, fraction, uwf, mass, parts) ==
  IF uwf
  THEN IF parts = RZero \/ iso.atomic_weight = RZero
       THEN ZeroDivision
       ELSE Ok(RDiv(RMul(RMul(density, iso.abundance), RDiv(fraction, parts)),
                    iso.atomic_weight))
  ELSE IF mass = RZero
       THEN ZeroDivision
       ELSE Ok(RDiv(RMul(RMul(density, iso.abundance), fraction), mass))

\* the inner loop of lines 154-164 over one element's isotopes
RECURSIVE ElementConcentrations(_, _, _, _, _, _, _, _)
RECURSIVE ElementConcentrationsNext(_, _, _, _, _, _, _, _, _)
ElementConcentrations(isos, j, density, fraction, uwf, mass, parts, acc) ==
  IF j > Len(isos) THEN Ok(acc)
  ELSE ElementConcentrationsNext(isos, j, density, fraction, uwf, mass, parts, acc,
         IsotopeConcentration(isos[j], density, fraction, uwf, mass, parts))

ElementConcentrationsNext(isos, j, density, fraction, uwf, mass, parts, acc, c) ==
  IF ~c.ok THEN c
  ELSE ElementConcentrations(isos, j + 1, density, fraction, uwf, mass, parts,
         Append(acc, [isos[j] EXCEPT !.concentration = c.val]))

\* lines 152-164 for one token: self.isotopes after it, or what it raises
ConcentrationsStep(element, fraction, amount, density, uwf, mass, parts, acc) ==
  IF ~element.ok THEN element
  ELSE IF ~fraction.ok THEN BadFloat(amount[2])
  ELSE ElementConcentrations(element.val, 1, density, fraction.val, uwf, mass,
                             parts, acc)

\* update_isotope_concentrations: the loop from token i on; acc is
\* self.isotopes so far
RECURSIVE ConcentrationsFrom(_, _, _, _, _, _, _, _)
RECURSIVE ConcentrationsNext(_, _, _, _, _, _, _, _)
ConcentrationsFrom(tbl, amounts, i, density, uwf, mass, parts, acc) ==
  IF i > Len(amounts) THEN Ok(acc)
  ELSE ConcentrationsNext(tbl, amounts, i, density, uwf, mass, parts,
         ConcentrationsStep(RetrieveComposition(tbl, amounts[i][1]),
                            FractionOf(amounts[i][2]), amounts[i], density, uwf,
                            mass, parts, acc))

ConcentrationsNext(tbl, amounts, i, density, uwf, mass, parts, step) ==
  IF ~step.ok THEN step
  ELSE ConcentrationsFrom(tbl, amounts, i + 1, density, uwf, mass, parts, step.val)

update_isotope_concentrations(tbl, amounts, density, uwf, mass, parts) ==
  ConcentrationsFrom(tbl, amounts, 1, density, uwf, mass, parts, <<>>)

\* the end of Mixture.__init__: the object, once its isotopes are computed
MixtureOfIsotopes(formula, density, name, uwf, amounts, mass, isos) ==
  IF ~isos.ok THEN isos
  ELSE Ok([kind |-> "Mixture",
           name |-> IF Truthy(name) THEN name ELSE formula,
           formula |-> formula,
           density |-> density,
           use_weight_fractions |-> uwf,
           element_amounts |-> amounts,
           compound_molar_mass |-> mass,
           isotopes |-> isos.val])

\* lines 120-128, given compound_molar_mass and total_weight_parts
MixtureOfMass(tbl, formula, density, name, uwf, amounts, mass, parts) ==
  IF ~mass.ok THEN mass
  ELSE IF ~parts.ok THEN parts
  ELSE MixtureOfIsotopes(formula, density, name, uwf, amounts, mass.val,
         update_isotope_concentrations(tbl, amounts, density, uwf, mass.val,
                                       parts.val))

\* lines 117-128, given element_amounts
MixtureOfAmounts(tbl, formula, density, name, uwf, amounts) ==
  MixtureOfMass(tbl, formula, density, name, uwf, amounts,
                IF uwf THEN Ok(None) ELSE calculate_molar_mass(tbl, amounts),
                IF uwf THEN WeightPartsFrom(amounts, 1, RZero) ELSE Ok(None))

\* Mixture.__init__: the new Mixture, or the exception that leaves it
MixtureNew(tbl, formula, density, name, use_weight_fractions) ==
  MixtureOfAmounts(tbl, formula, density, name, use_weight_fractions,
                   ElementAmounts(formula))

-----------------------------------------------------------------------------
(* dict: isotope_code -> concentration, as the insertion-ordered sequence  *)
(* of its <<code, concentration>> items.  Material.isotopes is a reference *)
(* (an index into dicts) to such a dict.  The empty dict that line 216     *)
(* creates and lines 175 and 257 drop at once is not kept.                 *)

DictKeys(d) == {d[i][1] : i \in 1..Len(d)}
DictIndex(d, code) == CHOOSE i \in 1..Len(d) : d[i][1] = code
\* d.get(code, default)
DictGet(d, code, default) ==
  IF code \in DictKeys(d) THEN d[DictIndex(d, code)][2] ELSE default
\* d[code] = value
DictSet(d, code, value) ==
  IF code \in DictKeys(d)
  THEN [d EXCEPT ![DictIndex(d, code)] = <<code, value>>]
  ELSE Append(d, <<code, value>>)

\* a new dict object holding content
NewDict(ds, content) == [ref |-> Len(ds) + 1, ds |-> Append(ds, content)]
\* line 257 without .copy(): the same dict object
ShareDict(ds, ref) == [ref |-> ref, ds |-> ds]

\* ds[ref].copy(): a new dict object with the same items
CopyDict(ds, ref) == [ref |-> Len(ds) + 1, ds |-> Append(ds, ds[ref])]

\* `if iso.concentration:`
ConcentrationTruthy(c) == c # None /\ c # RZero

MaterialObj(name, density, threshold, ref) ==
  [kind |-> "Material", name |-> name, density |-> density,
   concentration_threshold |-> threshold, isotopes |-> ref]

\* a new Material whose isotopes is the dict nd.ref of the heap nd.ds
MaterialOn(nd, name, density, threshold) ==
  [obj |-> MaterialObj(name, density, threshold, nd.ref), ds |-> nd.ds]

-----------------------------------------------------------------------------
(* Mixture.__mul__ / Mixture.__add__                                       *)

\* lines 177-178 for one isotope
ScaledSeedItem(d, iso, factor) ==
  IF ConcentrationTruthy(iso.concentration)
  THEN DictSet(d, iso.isotope_code, RMul(iso.concentration, factor))
  ELSE d

\* lines 176-178: the items written into new_mat.isotopes
RECURSIVE ScaledSeedFrom(_, _, _, _)
ScaledSeedFrom(isos, i, factor, d) ==
  IF i > Len(isos) THEN d
  ELSE ScaledSeedFrom(isos, i + 1, factor, ScaledSeedItem(d, isos[i], factor))

\* Mixture.__mul__(self, factor): the new Material and the heap of dicts
MixtureMul(ds, self, factor) ==
  MaterialOn(NewDict(ds, ScaledSeedFrom(self.isotopes, 1, factor, <<>>)),
             self.name, RMul(self.density, factor), RZero)

-----------------------------------------------------------------------------
(* class Material                                                          *)

\* lines 234-235 for one isotope
SeedItem(d, iso) ==
  IF ConcentrationTruthy(iso.concentration)
  THEN DictSet(d, iso.isotope_code, iso.concentration)
  ELSE d

\* lines 233-235: the items written into self.isotopes
RECURSIVE SeedFrom(_, _, _)
SeedFrom(isos, i, d) ==
  IF i > Len(isos) THEN d
  ELSE SeedFrom(isos, i + 1, SeedItem(d, isos[i]))

\* no Mixture object (initial_mix = None)
NoMixture == [kind |-> "None"]

\* lines 218-229: initial_mix, or the exception raised on the way
InitialMix(tbl, name, mix, density, formula) ==
  IF mix.kind = "Mixture" THEN Ok(mix)
  ELSE IF Truthy(formula)
  THEN IF density = None \/ density = RZero
       THEN Raise("ValueError", "Density required for formula init", <<>>)
       ELSE MixtureNew(tbl, formula, density,
                       IF Truthy(name) THEN name ELSE formula, FALSE)
  ELSE Ok(NoMixture)

\* lines 213-216 and 231-235, given initial_mix
MaterialOfMix(ds, name, mix, density, threshold, formula, initial_mix) ==
  IF ~initial_mix.ok THEN initial_mix
  ELSE IF initial_mix.val.kind = "None"
  THEN Ok(MaterialOn(NewDict(ds, <<>>), name, density, threshold))
  ELSE Ok(MaterialOn(NewDict(ds, SeedFrom(initial_mix.val.isotopes, 1, <<>>)),
                     IF mix.kind = "Mixture" THEN initial_mix.val.name
                     ELSE IF Truthy(name) THEN name ELSE formula,
                     initial_mix.val.density, threshold))

\* Material.__init__; mix is the Mixture passed as name, or NoMixture.
\* The value is the new object and the heap of dicts, or the exception.
MaterialNew(tbl, ds, name, mix, density, threshold, formula) ==
  MaterialOfMix(ds, name, mix, density, threshold, formula,
                InitialMix(tbl, name, mix, density, formula))

\* line 259 with the sum dropped: other's value replaces self's
AccumulateItemOverwrite(d, item) == DictSet(d, item[1], item[2])

\* line 259 as setdefault: a value self already holds is kept
AccumulateItemKeepSelf(d, item) ==
  DictSet(d, item[1], DictGet(d, item[1], item[2]))

\* line 259 for one item of other.isotopes
AccumulateItem(d, item) ==
  DictSet(d, item[1], RAdd(DictGet(d, item[1], RZero), item[2]))

\* lines 258-259: other's items accumulated into d
RECURSIVE AccumulateFrom(_, _, _)
AccumulateFrom(d, items, i) ==
  IF i > Len(items) THEN d
  ELSE AccumulateFrom(AccumulateItem(d, items[i]), items, i + 1)

\* lines 243-246
NewName(self, other) ==
  IF ~Truthy(self.name) /\ Truthy(other.name) THEN other.name ELSE self.name

\* lines 248-261, given the dict cp.ref that new_mat.isotopes refers to
MaterialAddInto(self, other, cp) ==
  [obj |-> MaterialObj(NewName(self, other),
                       RAdd(self.density, other.density),
                       RMin(self.concentration_threshold,
                            other.concentration_threshold),
                       cp.ref),
   ds |-> [cp.ds EXCEPT ![cp.ref] =
             AccumulateFrom(cp.ds[cp.ref], cp.ds[other.isotopes], 1)]]

\* lines 242-261, other a Material: conv is other and the heap of dicts
MaterialAddMaterial(self, conv) ==
  MaterialAddInto(self, conv.obj, CopyDict(conv.ds, self.isotopes))

\* Material.__add__(self, other), other a Material or a Mixture
MaterialAdd(ds, self, other) ==
  MaterialAddMaterial(self,
    IF other.kind = "Mixture" THEN MixtureMul(ds, other, ROne)
    ELSE [obj |-> other, ds |-> ds])

\* the sum of the Material t.obj, on the heap t.ds, and other
AddTo(t, other) == MaterialAdd(t.ds, t.obj, other)

\* Mixture.__add__(self, other): (self * 1.0) + other
MixtureAdd(ds, self, other) == AddTo(MixtureMul(ds, self, ROne), other)

\* lines 272-273 with the factor dropped
ScaledItemsUnscaled(d, factor) == d

\* lines 272-273: the items written into new_mat.isotopes
ScaledItems(d, factor) ==
  [i \in 1..Len(d) |-> <<d[i][1], RMul(d[i][2], factor)>>]

\* Material.__mul__(self, factor)
MaterialMul(ds, self, factor) ==
  MaterialOn(NewDict(ds, ScaledItems(ds[self.isotopes], factor)),
             self.name, RMul(self.density, factor),
             self.concentration_threshold)

\* the sort key of line 295
SortKey(item) == IF IsDigit(item[1]) THEN IntOf(item[1]) ELSE 0

\* list.sort(key=...): stable, ascending
RECURSIVE InsertSorted(_, _)
InsertSorted(sorted, item) ==
  IF Len(sorted) = 0 THEN <<item>>
  ELSE IF SortKey(sorted[Len(sorted)]) <= SortKey(item)
  THEN Append(sorted, item)
  ELSE Append(InsertSorted(SubSeq(sorted, 1, Len(sorted) - 1), item),
              sorted[Len(sorted)])

RECURSIVE SortedFrom(_, _, _)
SortedFrom(items, i, sorted) ==
  IF i > Len(items) THEN sorted
  ELSE SortedFrom(items, i + 1, InsertSorted(sorted, items[i]))

\* line 295 left out: the items stay in insertion order
SortItemsUnsorted(items) == items

SortItems(items) == SortedFrom(items, 1, <<>>)

\* lines 290-293
ValidIsotopes(d, threshold) ==
  SelectSeq(d, LAMBDA item : RGeq(item[2], threshold))

\* Material.__str__: the header's name and density and the isotope lines
\* (the text formatting of the numbers, %.3f and %.6E, is not modelled)
MaterialStr(ds, self) ==
  [name |-> self.name,
   density |-> IF self.density = None THEN RZero ELSE self.density,
   lines |-> SortItems(ValidIsotopes(ds[self.isotopes],
                                     self.concentration_threshold))]

-----------------------------------------------------------------------------
(* main.py: parse_mixture                                                  *)

\* str.split(sep) for a one-character separator
RECURSIVE SplitFrom(_, _, _, _)
SplitFrom(s, sep, i, cur) ==
  IF i > Len(s) THEN <<cur>>
  ELSE IF s[i] = sep THEN <<cur>> \o SplitFrom(s, sep, i + 1, <<>>)
  ELSE SplitFrom(s, sep, i + 1, Append(cur, s[i]))

Split(s, sep) == SplitFrom(s, sep, 1, <<>>)

Whitespace == {" "}
Solid(s) == {i \in 1..Len(s) : s[i] \notin Whitespace}
\* str.strip()
Strip(s) ==
  IF Solid(s) = {} THEN <<>>
  ELSE SubSeq(s, CHOOSE i \in Solid(s) : \A j \in Solid(s) : i <= j,
                 CHOOSE i \in Solid(s) : \A j \in Solid(s) : j <= i)

\* the length of the run of digits of s that starts at i
DigitRun(s, i) == SpanEnd(s, i, Digits) - i

\* the ways (\d+.?\d*)% matches at i: <<n, dot, m>> are the lengths of \d+,
\* of .? and of \d*; the % must be followed by a character for (.+)
PercentWays(s, i) ==
  {w \in (1..DigitRun(s, i)) \X {0, 1} \X (0..Len(s)) :
     /\ w[3] <= DigitRun(s, i + w[1] + w[2])
     /\ i + w[1] + w[2] + w[3] < Len(s)
     /\ s[i + w[1] + w[2] + w[3]] = "%"}

\* the order in which backtracking tries them: every quantifier is greedy
Preferred(w, v) ==
  \/ w[1] > v[1]
  \/ w[1] = v[1] /\ w[2] > v[2]
  \/ w[1] = v[1] /\ w[2] = v[2] /\ w[3] >= v[3]

NoMatch == [found |-> FALSE, fraction |-> <<>>, formula |-> <<>>]
Groups(s, i, k, j) ==
  [found |-> TRUE, fraction |-> SubSeq(s, i, k), formula |-> SubSeq(s, j, Len(s))]

PercentGroups(s, i, w) ==
  Groups(s, i, i + w[1] + w[2] + w[3] - 1, i + w[1] + w[2] + w[3] + 1)

\* the leftmost position at which (\d+.?\d*)%(.+) matches
LeftmostPercent(s) ==
  CHOOSE i \in 1..Len(s) :
    PercentWays(s, i) # {} /\ \A j \in 1..(i - 1) : PercentWays(s, j) = {}

\* the way the match at i is made
FirstWay(s, i) ==
  CHOOSE w \in PercentWays(s, i) : \A v \in PercentWays(s, i) : Preferred(w, v)

\* re.search(r"(\d+.?\d*)%(.+)", s): groups 1 and 2 of the leftmost match
PercentMatch(s) ==
  IF \A i \in 1..Len(s) : PercentWays(s, i) = {} THEN NoMatch
  ELSE PercentGroups(s, LeftmostPercent(s), FirstWay(s, LeftmostPercent(s)))

\* \d+\.\d+ matches at i
DecimalAt(s, i) ==
  /\ DigitRun(s, i) >= 1
  /\ i + DigitRun(s, i) <= Len(s)
  /\ s[i + DigitRun(s, i)] = "."
  /\ DigitRun(s, i + DigitRun(s, i) + 1) >= 1

DecimalGroups(s, i) ==
  Groups(s, i, SpanEnd(s, i + DigitRun(s, i) + 1, Digits) - 1,
         SpanEnd(s, i + DigitRun(s, i) + 1, Digits))

\* re.search(r"(\d+\.\d+)(.*)", s): groups 1 and 2 of the leftmost match
DecimalMatch(s) ==
  IF \A i \in 1..Len(s) : ~DecimalAt(s, i) THEN NoMatch
  ELSE DecimalGroups(s, CHOOSE i \in 1..Len(s) :
                          DecimalAt(s, i) /\ \A j \in 1..(i - 1) : ~DecimalAt(s, j))

\* lines 10-12: the match the part is read with
PartMatch(part) ==
  IF PercentMatch(part).found THEN PercentMatch(part) ELSE DecimalMatch(part)

\* float(text) of a matched group 1: surrounding whitespace is ignored, the
\* rest must be digits with at most one point (exponents and underscores
\* do not occur in the texts matched here)
FloatOf(text) ==
  IF /\ \A i \in 1..Len(Strip(text)) : Strip(text)[i] \in Digits \cup {"."}
     /\ Cardinality({i \in 1..Len(Strip(text)) : Strip(text)[i] = "."}) <= 1
  THEN ParseFloat(Strip(text))
  ELSE [ok |-> FALSE, val |-> RZero]

\* lines 13-18 for one part, given its match and the float of group 1
PartEntry(fractions, part, match, fraction) ==
  IF ~match.found THEN Ok(DictSet(fractions, part, ROne))
  ELSE IF ~fraction.ok THEN BadFloat(match.fraction)
  ELSE Ok(DictSet(fractions, match.formula, fraction.val))

PartStep(fractions, part, match) ==
  PartEntry(fractions, part, match, FloatOf(match.fraction))

\* the loop of lines 9-18 from part i on
RECURSIVE PartsFrom(_, _, _)
RECURSIVE PartsNext(_, _, _)
PartsFrom(parts, i, fractions) ==
  IF i > Len(parts) THEN Ok(fractions)
  ELSE PartsNext(parts, i,
         PartStep(fractions, Strip(parts[i]), PartMatch(Strip(parts[i]))))

PartsNext(parts, i, step) ==
  IF ~step.ok THEN step ELSE PartsFrom(parts, i + 1, step.val)

\* parse_mixture(mixture): the dict of fractions, or the ValueError of float
parse_mixture(mixture) == PartsFrom(Split(mixture, "+"), 1, <<>>)

-----------------------------------------------------------------------------
(* generate_materials.py: class ConcentrationConvertor.  self.data is the  *)
(* same table; concentrations are carried in units of self.AVOGADRO        *)
(* (0.602, line 49), thresholds in the same unit.  The rounding of a       *)
(* concentration to its %.6E text (line 188) is not modelled.              *)

\* str.split(): the parts between runs of whitespace
RECURSIVE WordsFrom(_, _, _)
WordsFrom(s, i, cur) ==
  IF i > Len(s) THEN (IF cur = <<>> THEN <<>> ELSE <<cur>>)
  ELSE IF s[i] \in Whitespace
  THEN (IF cur = <<>> THEN <<>> ELSE <<cur>>) \o WordsFrom(s, i + 1, <<>>)
  ELSE WordsFrom(s, i + 1, Append(cur, s[i]))

Words(s) == WordsFrom(s, 1, <<>>)

\* line 100: the dict {symbol: quantity} of one component
RECURSIVE ComponentFrom(_, _, _)
RECURSIVE ComponentNext(_, _, _, _)
ComponentFrom(matches, i, d) ==
  IF i > Len(matches) THEN Ok(d)
  ELSE ComponentNext(matches, i, d, FractionOf(matches[i][2]))

ComponentNext(matches, i, d, fraction) ==
  IF ~fraction.ok THEN BadFloat(matches[i][2])
  ELSE ComponentFrom(matches, i + 1, DictSet(d, matches[i][1], fraction.val))

\* parse_formula: the list of the components' dicts
RECURSIVE CompositionFrom(_, _, _)
RECURSIVE CompositionNext(_, _, _, _)
CompositionFrom(components, i, composition) ==
  IF i > Len(components) THEN Ok(composition)
  ELSE CompositionNext(components, i, composition,
         ComponentFrom(ElementAmounts(components[i]), 1, <<>>))

CompositionNext(components, i, composition, c) ==
  IF ~c.ok THEN c
  ELSE CompositionFrom(components, i + 1, Append(composition, c.val))

parse_formula(formula) == CompositionFrom(Words(formula), 1, <<>>)

\* self.data[self.data["element"] == el]
ElementRows(tbl, el) == SelectSeq(tbl, LAMBDA row : row.element = el)

OutOfBounds(el) ==
  Raise("IndexError", "single positional indexer is out-of-bounds", el)

\* lines 203-207: the weight of an element, given its rows with a weight
\* and its rows with a mass
WeightFrom(el, weights, masses) ==
  IF Len(weights) > 0 THEN Ok(weights[1].element_atomic_weight)
  ELSE IF Len(masses) > 0 THEN Ok(masses[1].isotope_atomic_mass)
  ELSE OutOfBounds(el)

LegacyWeight(tbl, el) ==
  WeightFrom(el,
    SelectSeq(ElementRows(tbl, el), LAMBDA row : NotNa(row.element_atomic_weight)),
    SelectSeq(ElementRows(tbl, el), LAMBDA row : NotNa(row.isotope_atomic_mass)))

\* lines 202-209: component_mass, from item i of the component on
RECURSIVE ComponentMassFrom(_, _, _, _)
RECURSIVE ComponentMassNext(_, _, _, _, _)
ComponentMassFrom(tbl, c, i, mass) ==
  IF i > Len(c) THEN Ok(mass)
  ELSE ComponentMassNext(tbl, c, i, mass, LegacyWeight(tbl, c[i][1]))

ComponentMassNext(tbl, c, i, mass, weight) ==
  IF ~weight.ok THEN weight
  ELSE ComponentMassFrom(tbl, c, i + 1,
         RAdd(mass, RMul(weight.val,
                         IF RLt(ROne, c[i][2]) THEN c[i][2] ELSE ROne)))

\* line 211
CommonFactor(density, mass) ==
  IF ~mass.ok THEN mass
  ELSE IF mass.val = RZero THEN ZeroDivision
  ELSE Ok(RDiv(density, mass.val))

\* get_isotope_code
get_isotope_code(atomic_number, mass_number) ==
  StrOfNat(atomic_number) \o Pad3(mass_number)

\* get_concentration: the line of an isotope, as <<isotope code,
\* concentration>>, or None below the threshold
get_concentration(factor, abundance, units, atomic_number, mass_number, threshold) ==
  IF RLt(RMul(RMul(factor, abundance), units), threshold) THEN None
  ELSE <<get_isotope_code(atomic_number, mass_number),
         RMul(RMul(factor, abundance), units)>>

\* the rows with a defined isotopic composition
Abundant(rows) == SelectSeq(rows, LAMBDA row : NotNa(row.isotopic_composition))

\* isotopes.loc[isotopes["isotopic_composition"].idxmax()]
PrimaryIsotope(rows) ==
  Abundant(rows)[CHOOSE i \in 1..Len(Abundant(rows)) :
    /\ \A j \in 1..Len(Abundant(rows)) :
         ~RLt(Abundant(rows)[i].isotopic_composition,
              Abundant(rows)[j].isotopic_composition)
    /\ \A j \in 1..(i - 1) :
         RLt(Abundant(rows)[j].isotopic_composition,
             Abundant(rows)[i].isotopic_composition)]

\* lines 216-245 for one element: what is appended to output
ElementOutput(rows, units, factor, natural, threshold) ==
  IF Len(Abundant(rows)) = 0
  THEN <<get_concentration(factor, ROne, units, rows[1].atomic_number,
                           rows[1].mass_number, threshold)>>
  ELSE IF ~natural
  THEN <<get_concentration(factor, ROne, units,
                           PrimaryIsotope(rows).atomic_number,
                           PrimaryIsotope(rows).mass_number, threshold)>>
  ELSE [k \in 1..Len(Abundant(rows)) |->
          get_concentration(factor, Abundant(rows)[k].isotopic_composition,
                            units, Abundant(rows)[k].atomic_number,
                            Abundant(rows)[k].mass_number, threshold)]

\* lines 213-245: the loop over the elements of a component
RECURSIVE ComponentOutput(_, _, _, _, _, _, _)
ComponentOutput(tbl, c, i, factor, natural, threshold, output) ==
  IF i > Len(c) THEN output
  ELSE ComponentOutput(tbl, c, i + 1, factor, natural, threshold,
         output \o ElementOutput(ElementRows(tbl, c[i][1]), c[i][2], factor,
                                 natural, threshold))

\* lines 199-245: the loop over the components of a material
RECURSIVE ComponentsFrom(_, _, _, _, _, _, _)
RECURSIVE ComponentsNext(_, _, _, _, _, _, _, _)
ComponentsFrom(tbl, components, i, density, natural, threshold, output) ==
  IF i > Len(components) THEN Ok(output)
  ELSE ComponentsNext(tbl, components, i, density, natural, threshold, output,
         CommonFactor(density, ComponentMassFrom(tbl, components[i], 1, RZero)))

ComponentsNext(tbl, components, i, density, natural, threshold, output, factor) ==
  IF ~factor.ok THEN factor
  ELSE ComponentsFrom(tbl, components, i + 1, density, natural, threshold,
         ComponentOutput(tbl, components[i], 1, factor.val, natural, threshold,
                         output))

NoneHasNoSplit ==
  Raise("AttributeError", "'NoneType' object has no attribute 'split'", <<>>)

\* line 246: sorted(output[1:], key=lambda x: int(x.split("\t")[0]))
SortedOutput(output) ==
  IF \E k \in 1..Len(output) : output[k] = None THEN NoneHasNoSplit
  ELSE Ok(SortedFrom(output, 1, <<>>))

\* lines 196-247 for one material: its block, given its parsed formula
BlockOfLines(i, mat, lines) ==
  IF ~lines.ok THEN lines
  ELSE Ok([index |-> i,
           name |-> IF Truthy(mat.name) THEN mat.name ELSE mat.formula,
           density |-> mat.density, lines |-> lines.val])

BlockOfOutput(i, mat, output) ==
  IF ~output.ok THEN output ELSE BlockOfLines(i, mat, SortedOutput(output.val))

BlockOfComponents(tbl, i, mat, components, natural, threshold) ==
  IF ~components.ok THEN components
  ELSE BlockOfOutput(i, mat,
         ComponentsFrom(tbl, components.val, 1, mat.density, natural, threshold,
                        <<>>))

\* calculate: the loop over self.materials; result holds the blocks so far
RECURSIVE CalculateFrom(_, _, _, _, _, _)
RECURSIVE CalculateNext(_, _, _, _, _, _, _)
CalculateFrom(tbl, materials, i, natural, threshold, blocks) ==
  IF i > Len(materials) THEN Ok(blocks)
  ELSE CalculateNext(tbl, materials, i, natural, threshold, blocks,
         BlockOfComponents(tbl, i, materials[i], parse_formula(materials[i].formula),
                           natural, threshold))

CalculateNext(tbl, materials, i, natural, threshold, blocks, block) ==
  IF ~block.ok THEN block
  ELSE CalculateFrom(tbl, materials, i + 1, natural, threshold,
                     Append(blocks, block.val))

\* ConcentrationConvertor.calculate(threshold): the blocks printed, or the
\* exception that leaves it
calculate(tbl, materials, natural, threshold) ==
  CalculateFrom(tbl, materials, 1, natural, threshold, <<>>)

-----
(* Inputs.                                                                 *)

MaxObjs == 3

H2O == <<"H", "2", "O">>
D2O == <<"D", "2", "O">>
CH2 == <<"C", "H", "2">>
Ethanol == <<"C", "H", "3", "C", "H", "2", "O", "H">>
Doped == <<"C", "2", "H", "4", " ", "B", "0", ".", "2">>
Technetium == <<"T", "c">>
Tritium == <<"T">>
Unknown == <<"H", "2", "X">>
ZeroAmount == <<"H", "0">>
BadQuantity == <<"H", ".", "X">>
Water == <<"W", "a", "t", "e", "r">>

\* the algebra is exercised on these
Formulas == {H2O, D2O}
Densities == {R(1, 1), R(2, 1)}
Names == {NoName, Water}
Thresholds == {RZero, R(1, 50)}
Factors == {RZero, R(1, 2), ROne}

\* single constructions are exercised on these
BuildFormulas == {H2O, D2O, CH2, Ethanol, Doped, Technetium, Tritium, Unknown,
                  ZeroAmount, BadQuantity}
BuildDensities == {R(-1, 1), RZero, R(1, 2), R(1, 1), R(2, 1)}
Symbols == {<<"H">>, <<"D">>, <<"T">>, <<"C">>, <<"C", "1", "4">>,
            <<"C", "9", "9">>, <<"H", "2">>, <<"T", "c">>, <<"X">>, <<"1", "4">>}

\* parse_mixture is exercised on one part or two parts joined by " + ";
\* a part is a bare formula or a fraction, a separator and a formula
PartFormulas == {<<"S", "i", "O", "2">>, <<"F", "e", "0", ".", "9", "8", "8">>}
PartFractions == {<<"9", "0">>, <<"0", ".", "9">>, <<"1", ".", "5">>}
PartSeparators == {<<"%">>, <<"%", " ">>, <<>>}
NoFraction == <<>>
PartShapes ==
  [fraction : PartFractions, sep : PartSeparators, formula : PartFormulas]
    \cup [fraction : {NoFraction}, sep : {<<>>}, formula : PartFormulas]
MixtureShapes ==
  {<<p>> : p \in PartShapes}
    \cup {<<p, q>> : p \in PartShapes,
                     q \in {q \in PartShapes : q.fraction \in {NoFraction, <<"1", ".", "5">>}}}
PartText(p) == p.fraction \o p.sep \o p.formula
MixtureText(m) ==
  IF Len(m) = 1 THEN PartText(m[1])
  ELSE PartText(m[1]) \o <<" ", "+", " ">> \o PartText(m[2])
MixtureTexts == {MixtureText(m) : m \in MixtureShapes}

\* sums are grouped over Materials that share isotopes and bring others,
\* one of them of a density below the rounding unit of the others', scaled
\* by a negative factor
SumFormulas == {H2O, CH2}
Tiny == R(1, 4 * Full)
SumFactors == {R(-1, 1)}

\* ConcentrationConvertor.calculate is exercised on one or two materials
LegacyFormulas == {H2O, CH2, Ethanol, Doped, Technetium}
LegacyMaterials ==
  [formula : LegacyFormulas, density : Densities, name : {NoName}]
MaterialLists ==
  {<<m>> : m \in LegacyMaterials} \cup {<<m, n>> : m, n \in LegacyMaterials}

-----------------------------------------------------------------------------
(* The state machine.  objs is the list of the Mixture and Material        *)
(* objects the caller holds, dicts the heap of dict objects, result what   *)
(* the last call returned or raised.                                       *)

Call(op, args) == [op |-> op, args |-> args]
NoCall == Call("", <<>>)
Returned(call, v) == [call |-> call, ok |-> TRUE, val |-> v, exc |-> NoExc]
Raised(call, r) == [call |-> call, ok |-> FALSE, val |-> <<>>, exc |-> r.exc]

Init ==
  /\ table \in Tables
  /\ objs = <<>>
  /\ dicts = <<>>
  /\ result = Returned(NoCall, <<>>)

IsMixture(i) == i \in 1..Len(objs) /\ objs[i].kind = "Mixture"
IsMaterial(i) == i \in 1..Len(objs) /\ objs[i].kind = "Material"

\* the call returned a new object: the caller keeps it
Keep(call, r) ==
  /\ objs' = Append(objs, r.obj)
  /\ dicts' = r.ds
  /\ result' = Returned(call, Len(objs) + 1)

\* the call raised: nothing is returned
Fail(call, r) ==
  /\ result' = Raised(call, r)
  /\ UNCHANGED <<objs, dicts>>

\* a constructor call ends: r is its new object and heap, or its exception
Settle(call, r) ==
  /\ Len(objs) < MaxObjs
  /\ IF r.ok THEN Keep(call, r.val) ELSE Fail(call, r)
  /\ UNCHANGED table

\* a Mixture owns no dict: the heap of dicts is as before
OnHeap(r, ds) == IF r.ok THEN Ok([obj |-> r.val, ds |-> ds]) ELSE r

ElementDone(call, r) ==
  /\ result' = IF r.ok THEN Returned(call, r.val) ELSE Raised(call, r)
  /\ UNCHANGED <<table, objs, dicts>>

\* Element(symbol)
ElementInit(S) ==
  \E symbol \in S :
    /\ objs = <<>>
    /\ ElementDone(Call("Element", [symbol |-> symbol]),
                   RetrieveComposition(table, symbol))

\* Mixture(formula, density, name, use_weight_fractions)
MixtureInit(F, D, N, U) ==
  \E formula \in F, density \in D, name \in N, uwf \in U :
    Settle(Call("Mixture", [formula |-> formula, density |-> density,
                            name |-> name, use_weight_fractions |-> uwf]),
           OnHeap(MixtureNew(table, formula, density, name, uwf), dicts))

\* Material(name, density, concentration_threshold, formula), name a str or None
MaterialInit(N, D, T, F) ==
  \E name \in N, density \in D, threshold \in T, formula \in F :
    Settle(Call("Material", [name |-> name, density |-> density,
                             concentration_threshold |-> threshold,
                             formula |-> formula]),
           MaterialNew(table, dicts, name, NoMixture, density, threshold, formula))

\* Material(mixture, density, concentration_threshold)
MaterialFromMixture(D, T) ==
  \E i \in 1..Len(objs), density \in D, threshold \in T :
    /\ IsMixture(i)
    /\ Settle(Call("MaterialOfMixture",
                   [mixture |-> i, density |-> density,
                    concentration_threshold |-> threshold]),
              MaterialNew(table, dicts, NoName, objs[i], density, threshold, None))

\* mixture * k, k * mixture
MixtureMulCall(K) ==
  \E i \in 1..Len(objs), k \in K :
    /\ IsMixture(i)
    /\ Settle(Call("Mixture.__mul__", [self |-> i, other |-> k]),
              Ok(MixtureMul(dicts, objs[i], k)))

\* material * k, k * material
MaterialMulCall(K) ==
  \E i \in 1..Len(objs), k \in K :
    /\ IsMaterial(i)
    /\ Settle(Call("Material.__mul__", [self |-> i, other |-> k]),
              Ok(MaterialMul(dicts, objs[i], k)))

\* mixture + other
MixtureAddCall ==
  \E i \in 1..Len(objs), j \in 1..Len(objs) :
    /\ IsMixture(i)
    /\ Settle(Call("Mixture.__add__", [self |-> i, other |-> j]),
              Ok(MixtureAdd(dicts, objs[i], objs[j])))

\* material + other
MaterialAddCall ==
  \E i \in 1..Len(objs), j \in 1..Len(objs) :
    /\ IsMaterial(i)
    /\ Settle(Call("Material.__add__", [self |-> i, other |-> j]),
              Ok(MaterialAdd(dicts, objs[i], objs[j])))

\* str(material)
MaterialStrCall ==
  \E i \in 1..Len(objs) :
    /\ IsMaterial(i)
    /\ result' = Returned(Call("Material.__str__", [self |-> i]),
                          MaterialStr(dicts, objs[i]))
    /\ objs' = [objs EXCEPT ![i].density = IF @ = None THEN RZero ELSE @]
    /\ UNCHANGED <<table, dicts>>

\* parse_mixture(mixture), called once on the text the user entered
ParseMixtureCall(M) ==
  \E mixture \in M :
    /\ result.call = NoCall
    /\ ElementDone(Call("parse_mixture", [mixture |-> mixture]),
                   parse_mixture(mixture))

\* ConcentrationConvertor.calculate(threshold), self.materials and
\* self.use_natural_concentrations being what the user entered
CalculateCall(L, T) ==
  \E materials \in L, natural \in BOOLEAN, threshold \in T :
    /\ result.call = NoCall
    /\ ElementDone(Call("ConcentrationConvertor.calculate",
                        [materials |-> materials,
                         use_natural_concentrations |-> natural,
                         threshold |-> threshold]),
                   calculate(table, materials, natural, threshold))

Next ==
  \/ MixtureInit(Formulas, Densities, {NoName}, {FALSE})
  \/ MaterialInit({NoName}, {RZero}, {RZero}, {None})
  \/ MaterialInit({Water}, {ROne}, Thresholds, {CH2})
  \/ MaterialFromMixture({RZero}, {RZero})
  \/ MixtureMulCall(Factors)
  \/ MaterialMulCall(Factors)
  \/ MixtureAddCall
  \/ MaterialAddCall
  \/ MaterialStrCall

Spec == Init /\ [][Next]_vars

\* one construction from a formula or a symbol, then its conversions
NextBuild ==
  \/ ElementInit(Symbols)
  \/ objs = <<>> /\ MixtureInit(BuildFormulas, BuildDensities, Names, BOOLEAN)
  \/ objs = <<>> /\ MaterialInit(Names, BuildDensities, Thresholds, BuildFormulas)
  \/ MaterialFromMixture({RZero}, Thresholds)
  \/ MixtureMulCall(Factors)

SpecBuild == Init /\ [][NextBuild]_vars

\* Materials built from a formula, scaled and summed
NextSum ==
  \/ MaterialInit({NoName}, {ROne}, {RZero}, SumFormulas)
  \/ MaterialInit({NoName}, {Tiny}, {RZero}, {H2O})
  \/ MaterialMulCall(SumFactors)
  \/ MaterialAddCall

SpecSum == Init /\ [][NextSum]_vars

\* calls of parse_mixture
NextParse == ParseMixtureCall(MixtureTexts)

SpecParse == Init /\ [][NextParse]_vars

\* calls of the legacy calculation
NextLegacy == CalculateCall(MaterialLists, Thresholds)

SpecLegacy == Init /\ [][NextLegacy]_vars

-----------------------------------------------------------------------------
(* Properties.                                                             *)

Called(ops) == result.ok /\ result.call.op \in ops
Args == result.call.args
\* the object the last call returned
NewObj == objs[result.val]
\* the isotope map of a Material of the heap
MapOf(m) == dicts[m.isotopes]
\* an operand of + as a Material: a Mixture is converted with factor 1.0
Converted(o) == IF o.kind = "Mixture" THEN MixtureMul(dicts, o, ROne)
                ELSE [obj |-> o, ds |-> dicts]
OperandDensity(o) == Converted(o).obj.density
OperandMap(o) == Converted(o).ds[Converted(o).obj.isotopes]
UniqueKeys(d) == Cardinality(DictKeys(d)) = Len(d)

AddOps == {"Material.__add__", "Mixture.__add__"}
MulOps == {"Material.__mul__", "Mixture.__mul__"}

\* m1*k1 + m2*k2 for two Mixtures of the heap
ScaledSum(m1, k1, m2, k2) ==
  LET s1 == MixtureMul(dicts, m1, k1)
      s2 == MixtureMul(s1.ds, m2, k2)
  IN  MaterialAdd(s2.ds, s1.obj, s2.obj)

ScaledSumDensityIsSum(m1, m2) ==
  \A k1, k2 \in Factors :
    ScaledSum(m1, k1, m2, k2).obj.density =
      RAdd(RMul(m1.density, k1), RMul(m2.density, k2))

\* C1: a + b is a new Material whose density is a.density + b.density and
\* whose isotope map has exactly the keys of a's map united with b's, each
\* with a's value plus b's value (a missing value counting as 0); and the
\* density of m1*k1 + m2*k2 is m1.density*k1 + m2.density*k2, for every
\* pair of Mixtures (checked when the later of the two has been built).
C1_AdditiveCombine ==
  /\ Called(AddOps) =>
       LET a == Converted(objs[Args.self])
           b == Converted(objs[Args.other])
           A == a.ds[a.obj.isotopes]
           B == b.ds[b.obj.isotopes]
           N == MapOf(NewObj)
       IN  /\ result.val = Len(objs)
           /\ NewObj.kind = "Material"
           /\ NewObj.density = RAdd(a.obj.density, b.obj.density)
           /\ UniqueKeys(N)
           /\ DictKeys(N) = DictKeys(A) \cup DictKeys(B)
           /\ \A code \in DictKeys(N) :
                DictGet(N, code, None) =
                  RAdd(DictGet(A, code, RZero), DictGet(B, code, RZero))
  /\ Called({"Mixture"}) =>
       \A i \in 1..Len(objs) :
         IsMixture(i) => /\ ScaledSumDensityIsSum(objs[i], NewObj)
                         /\ ScaledSumDensityIsSum(NewObj, objs[i])

\* a Material has been added to a Mixture that shares some of its isotopes
\* and brings others
C1_Witness ==
  /\ Called({"Material.__add__"})
  /\ objs[Args.other].kind = "Mixture"
  /\ LET A == DictKeys(MapOf(objs[Args.self]))
         B == DictKeys(OperandMap(objs[Args.other]))
     IN  A \cap B # {} /\ B \ A # {} /\ A \ B # {}

\* C2: m * k (and k * m, the same call) is a new Material with density
\* m.density * k, the isotope codes of m, and every concentration that of m
\* times k; for k = 1.0 density and concentrations are those of m.
C2_ScalarMultiply ==
  Called({"Material.__mul__"}) =>
    LET m == objs[Args.self]
        k == Args.other
        M == MapOf(m)
        N == MapOf(NewObj)
    IN  /\ result.val = Len(objs)
        /\ NewObj.kind = "Material"
        /\ NewObj.density = RMul(m.density, k)
        /\ UniqueKeys(N)
        /\ DictKeys(N) = DictKeys(M)
        /\ \A code \in DictKeys(N) :
             DictGet(N, code, None) = RMul(DictGet(M, code, None), k)
        /\ k = ROne => NewObj.density = m.density /\ N = M

\* a Material with several isotopes has been halved
C2_Witness ==
  /\ Called({"Material.__mul__"})
  /\ Args.other = R(1, 2)
  /\ Len(MapOf(objs[Args.self])) >= 2
  /\ objs[Args.self].density # RZero

\* the sum of the concentrations of the entries of a Mixture's isotopes
\* list that carry the isotope code
RECURSIVE ContributionsFrom(_, _, _)
ContributionsFrom(isos, code, i) ==
  IF i > Len(isos) THEN RZero
  ELSE RAdd(IF isos[i].isotope_code = code THEN isos[i].concentration ELSE RZero,
            ContributionsFrom(isos, code, i + 1))

\* the Mixture that seeds the Material the last call returned, and the
\* factor applied to it
SeedMixture ==
  IF result.call.op = "Material"
  THEN MixtureNew(table, Args.formula, Args.density, Args.name, FALSE).val
  ELSE IF result.call.op = "MaterialOfMixture" THEN objs[Args.mixture]
  ELSE objs[Args.self]
SeedFactor == IF result.call.op = "Mixture.__mul__" THEN Args.other ELSE ROne
SeededFromFormula ==
  \/ Called({"Material"}) /\ Truthy(Args.formula)
  \/ Called({"MaterialOfMixture", "Mixture.__mul__"})
\* the density of the seeding formula is a valid one
SeedDensityValid == RLt(RZero, SeedMixture.density)

\* C3: when a Material is seeded from a formula, the concentration stored
\* under an isotope code is the sum of the contributions of all the tokens
\* that resolve to that code, not the contribution of the last one.
C3_Accumulated ==
  SeededFromFormula /\ SeedDensityValid =>
    \A code \in DictKeys(MapOf(NewObj)) :
      DictGet(MapOf(NewObj), code, None) =
        RMul(ContributionsFrom(SeedMixture.isotopes, code, 1), SeedFactor)

CombinatorOps == AddOps \cup MulOps

\* a scalar multiply or an additive combine returns in this step
CombinatorStep ==
  /\ Len(objs') = Len(objs) + 1
  /\ result'.call.op \in CombinatorOps

\* every object held before the step is as it was, its isotope map included
OperandsKept ==
  \A i \in 1..Len(objs) :
    /\ objs'[i] = objs[i]
    /\ objs[i].kind = "Material" =>
         /\ objs'[i].isotopes \in 1..Len(dicts)
         /\ dicts'[objs[i].isotopes] = dicts[objs[i].isotopes]

\* the result's isotope map is a dict object that did not exist before
FreshMap ==
  /\ objs'[Len(objs')].kind = "Material"
  /\ objs'[Len(objs')].isotopes \notin 1..Len(dicts)
  /\ objs'[Len(objs')].isotopes \in 1..Len(dicts')

\* C4: a scalar multiply or additive combine leaves every operand's (every
\* held object's) density, threshold, name and isotope concentrations
\* unchanged, and the result's isotope map is a fresh map that no operand
\* refers to.
C4_OperandsNotMutated == [][CombinatorStep => OperandsKept /\ FreshMap]_vars

\* no two Materials refer to the same dict
NoSharedMap ==
  \A i, j \in 1..Len(objs) :
    IsMaterial(i) /\ IsMaterial(j) /\ i # j => objs[i].isotopes # objs[j].isotopes

\* a Material with isotopes has been added to another object with isotopes,
\* and no two Materials share a map
C4_Witness ==
  /\ Called({"Material.__add__"})
  /\ Len(MapOf(objs[Args.self])) > 0
  /\ Len(OperandMap(objs[Args.other])) > 0
  /\ Args.self # Args.other
  /\ NoSharedMap

\* C5: the rendered isotope lines are exactly the entries of the isotope map
\* whose concentration is >= the concentration threshold, each once, in
\* ascending order of the numeric value of the isotope code.
C5_Rendering ==
  Called({"Material.__str__"}) =>
    LET m == objs[Args.self]
        d == MapOf(m)
        lines == result.val.lines
    IN  /\ \A k \in 1..Len(lines) :
             /\ lines[k][1] \in DictKeys(d)
             /\ lines[k][2] = DictGet(d, lines[k][1], None)
             /\ ~RLt(lines[k][2], m.concentration_threshold)
        /\ \A code \in DictKeys(d) :
             ~RLt(DictGet(d, code, None), m.concentration_threshold) =>
               \E k \in 1..Len(lines) : lines[k][1] = code
        /\ \A k1, k2 \in 1..Len(lines) : k1 # k2 => lines[k1][1] # lines[k2][1]
        /\ \A k \in 1..(Len(lines) - 1) :
             IntOf(lines[k][1]) < IntOf(lines[k + 1][1])

\* a Material whose map is not in ascending order and holds entries below
\* its threshold has been rendered
C5_Witness ==
  /\ Called({"Material.__str__"})
  /\ LET d == MapOf(objs[Args.self])
     IN  /\ Len(result.val.lines) >= 2
         /\ Len(result.val.lines) < Len(d)
         /\ \E k \in 1..(Len(d) - 1) : IntOf(d[k][1]) > IntOf(d[k + 1][1])

\* the quantity of a token
Quantity(amount) == FractionOf(amount[2]).val
\* the atomic weight the code takes for a token's element
WeightOf(amount) == RetrieveComposition(table, amount[1]).val[1].atomic_weight
IsDopant(amount) == RLt(Quantity(amount), ROne)

\* the sum of atomic weight x quantity over the dopant (quantity < 1) or
\* the host (quantity >= 1) tokens
RECURSIVE WeightedSum(_, _, _)
WeightedSum(amounts, i, dopant) ==
  IF i = 0 THEN RZero
  ELSE RAdd(WeightedSum(amounts, i - 1, dopant),
            IF IsDopant(amounts[i]) = dopant
            THEN RMul(WeightOf(amounts[i]), Quantity(amounts[i]))
            ELSE RZero)

RECURSIVE DopantTotal(_, _)
DopantTotal(amounts, i) ==
  IF i = 0 THEN RZero
  ELSE RAdd(DopantTotal(amounts, i - 1),
            IF IsDopant(amounts[i]) THEN Quantity(amounts[i]) ELSE RZero)

PurityFactor(amounts) == RAdd(ROne, RMul(R(-1, 1), DopantTotal(amounts, Len(amounts))))

MolarMassBuilt == Called({"Mixture"}) /\ ~Args.use_weight_fractions

\* C6 as claimed: the molar mass is the host sum divided by
\* purityFactor = 1 - (sum of the quantities < 1), plus the dopant sum.
C6_PurityFactorMass ==
  MolarMassBuilt /\ RLt(RZero, Args.density) =>
    LET amounts == NewObj.element_amounts
    IN  RLt(RZero, PurityFactor(amounts)) =>
          NewObj.compound_molar_mass =
            RAdd(RDiv(WeightedSum(amounts, Len(amounts), FALSE),
                      PurityFactor(amounts)),
                 WeightedSum(amounts, Len(amounts), TRUE))

\* C6 as amended: the molar mass is the plain sum over all element specs of
\* atomic weight x quantity, dopant or not, with no purity divisor; it is
\* strictly positive for a Mixture built from at least one element spec.
C6_PlainSumMass ==
  MolarMassBuilt =>
    LET amounts == NewObj.element_amounts
    IN  /\ NewObj.compound_molar_mass =
             RAdd(WeightedSum(amounts, Len(amounts), FALSE),
                  WeightedSum(amounts, Len(amounts), TRUE))
        /\ Len(amounts) > 0 => RLt(RZero, NewObj.compound_molar_mass)

\* a Mixture with host and dopant specs has been built
C6_Witness ==
  /\ MolarMassBuilt
  /\ \E i, j \in 1..Len(NewObj.element_amounts) :
       /\ IsDopant(NewObj.element_amounts[i])
       /\ ~IsDopant(NewObj.element_amounts[j])
  /\ RLt(RZero, PurityFactor(NewObj.element_amounts))

Hydrogen(isos) == SelectSeq(isos, LAMBDA iso : iso.atomic_number = 1)

\* C7: resolving D (resp. T), also as a token of D2O, yields exactly one
\* isotope, hydrogen of mass number 2 (resp. 3), code 1002 (resp. 1003),
\* with abundance 1.0.
C7_DeuteriumAlias ==
  /\ result.call.op = "Element" /\ Args.symbol \in {<<"D">>, <<"T">>} =>
       /\ result.ok
       /\ Len(result.val) = 1
       /\ result.val[1].isotope_code =
            IF Args.symbol = <<"D">> THEN <<"1", "0", "0", "2">>
            ELSE <<"1", "0", "0", "3">>
       /\ result.val[1].abundance = ROne
  /\ result.call.op = "Mixture" /\ Args.formula = D2O /\ RLt(RZero, Args.density) =>
       /\ result.ok
       /\ Len(Hydrogen(NewObj.isotopes)) = 1
       /\ Hydrogen(NewObj.isotopes)[1].isotope_code = <<"1", "0", "0", "2">>
       /\ Hydrogen(NewObj.isotopes)[1].abundance = ROne

\* the element is in the table, the symbol names no mass number, and no
\* row of the element has a defined natural abundance
NoAbundanceData(symbol) ==
  /\ MassNumberOf(symbol) = 0
  /\ Len(SelectRows(table, symbol, 0)) > 0
  /\ \A i \in 1..Len(SelectRows(table, symbol, 0)) :
       ~NotNa(SelectRows(table, symbol, 0)[i].isotopic_composition)

FirstRowCode(symbol) ==
  IsotopeCode(SelectRows(table, symbol, 0)[1].atomic_number,
              SelectRows(table, symbol, 0)[1].mass_number)

\* C8: an element without any defined natural abundance resolves to its
\* first table row with abundance 1.0, and a Mixture or Material of a
\* formula containing it is built, with that isotope's concentration.
C8_NoAbundanceFallback ==
  /\ result.call.op = "Element" /\ NoAbundanceData(Args.symbol) =>
       /\ result.ok
       /\ Len(result.val) = 1
       /\ result.val[1].isotope_code = FirstRowCode(Args.symbol)
       /\ result.val[1].abundance = ROne
  /\ /\ result.call.op \in {"Mixture", "Material"}
     /\ Args.formula = Technetium
     /\ RLt(RZero, Args.density)
     => /\ result.ok
        /\ NewObj.kind = "Material" =>
             FirstRowCode(Technetium) \in DictKeys(MapOf(NewObj))
        /\ NewObj.kind = "Mixture" =>
             \E i \in 1..Len(NewObj.isotopes) :
               NewObj.isotopes[i].isotope_code = FirstRowCode(Technetium)

\* the tokens of a formula whose lookup selects no row (the aliases D and
\* T are C7's subject and are left to it)
IsUnknown(amount) ==
  /\ amount[1] \notin {<<"D">>, <<"T">>}
  /\ Len(SelectRows(table, SearchSymbolOf(amount[1]), MassNumberOf(amount[1]))) = 0
UnknownTokens(amounts) == {i \in 1..Len(amounts) : IsUnknown(amounts[i])}
FirstUnknown(amounts) ==
  CHOOSE i \in UnknownTokens(amounts) : \A j \in UnknownTokens(amounts) : i <= j

\* a Mixture or Material is being built from a formula with an unknown token
BuildsUnknown ==
  /\ result.call.op \in {"Mixture", "Material"}
  /\ Truthy(Args.formula)
  /\ UnknownTokens(ElementAmounts(Args.formula)) # {}

NotFound(symbol) ==
  /\ result.exc.type = "ValueError"
  /\ result.exc.text = "Element/Isotope not found"
  /\ result.exc.symbol = symbol

\* C9 as claimed: a formula with an unknown element token fails with the
\* error that names an unknown symbol, and nothing is returned.
C9_UnknownSymbolNamed ==
  BuildsUnknown =>
    /\ ~result.ok
    /\ objs = <<>> /\ dicts = <<>>
    /\ \E i \in UnknownTokens(ElementAmounts(Args.formula)) :
         NotFound(ElementAmounts(Args.formula)[i][1])

\* C9 as amended: a formula with an unknown element token (and a symbol
\* whose lookup selects no row) fails and nothing is returned, no held
\* Mixture has an unresolved token, and the error names the first unknown
\* symbol unless an earlier step raised: the density check of
\* Material(formula=...), an earlier token, or with weight fractions the
\* conversion of the quantities, which precedes every lookup.
C9_UnknownSymbolFatal ==
  /\ BuildsUnknown =>
       LET amounts == ElementAmounts(Args.formula)
       IN  /\ ~result.ok
           /\ objs = <<>> /\ dicts = <<>>
           /\ \/ NotFound(amounts[FirstUnknown(amounts)][1])
              \/ /\ result.call.op = "Material"
                 /\ Args.density = RZero
                 /\ result.exc.text = "Density required for formula init"
              \/ /\ FirstUnknown(amounts) > 1
                 /\ result.exc.text \in {"list index out of range",
                                         "could not convert string to float",
                                         "float division by zero"}
              \/ /\ result.call.op = "Mixture"
                 /\ Args.use_weight_fractions
                 /\ result.exc.text = "could not convert string to float"
  /\ result.call.op = "Element" /\ IsUnknown(<<Args.symbol, <<>>>>) =>
       ~result.ok /\ NotFound(Args.symbol)
  /\ \A i \in 1..Len(objs) :
       IsMixture(i) => UnknownTokens(objs[i].element_amounts) = {}

\* a formula whose second token is unknown has been rejected, naming it
C9_Witness ==
  /\ BuildsUnknown
  /\ Args.formula = Unknown
  /\ ~result.ok
  /\ NotFound(<<"X">>)
  /\ objs = <<>>

\* C10: every construction from a formula with a density <= 0 fails:
\* Material(formula=..., density=d), Mixture(formula, d) and
\* Material(Mixture(formula, d)).
C10_DensityValidated ==
  /\ /\ result.call.op \in {"Mixture", "Material"}
     /\ Truthy(Args.formula)
     /\ ~RLt(RZero, Args.density)
     => ~result.ok
  /\ /\ result.call.op = "MaterialOfMixture"
     /\ ~RLt(RZero, objs[Args.mixture].density)
     => ~result.ok

\* the fraction the grammar gives a part: 1.0 for a bare formula, f/100 for
\* a leading fraction f > 1 and f otherwise
ExpectedFraction(p) ==
  IF p.fraction = NoFraction THEN ROne
  ELSE IF RLt(ROne, ParseFloat(p.fraction).val)
  THEN RDiv(ParseFloat(p.fraction).val, R(100, 1))
  ELSE ParseFloat(p.fraction).val

\* C11: parse_mixture maps every part of its input, split on '+', to its
\* formula with the fraction of the grammar: f/100 for '<f>%<formula>' or
\* '<f><formula>' with f > 1, f otherwise, and 1.0 for a bare formula, also
\* one with decimal element quantities.
C11_MixtureGrammar ==
  result.call.op = "parse_mixture" =>
    \A m \in MixtureShapes :
      MixtureText(m) = Args.mixture =>
        /\ result.ok
        /\ DictKeys(result.val) = {m[i].formula : i \in 1..Len(m)}
        /\ \A i \in 1..Len(m) :
             (\A j \in 1..Len(m) : j # i => m[j].formula # m[i].formula) =>
               DictGet(result.val, m[i].formula, None) = ExpectedFraction(m[i])

\* the isotope lines of material i when no threshold is applied
AllLines(i) ==
  calculate(table, <<Args.materials[i]>>, Args.use_natural_concentrations,
            R(-1, 1)).val[1].lines

\* The relative tolerance.  1e-9 is 2^23 times the 2^-53 of a float; the
\* model allows 2^3 times its 2^-Precision.
PerTolerance == Full \div 8

\* |x - y| <= max(|x|, |y|) / PerTolerance, computed exactly over the
\* common denominator x[2] * y[2] / g
CloseOver(x, y, g) ==
  Abs(x[1] * (y[2] \div g) - y[1] * (x[2] \div g)) * PerTolerance <=
    (IF Abs(x[1]) * (y[2] \div g) < Abs(y[1]) * (x[2] \div g)
     THEN Abs(y[1]) * (x[2] \div g) ELSE Abs(x[1]) * (y[2] \div g))
Close(x, y) == CloseOver(x, y, GCD(x[2], y[2]))

HeldMaterials == {objs[i] : i \in {i \in 1..Len(objs) : IsMaterial(i)}}
\* the isotope map of a sum
SumMap(t) == t.ds[t.obj.isotopes]
\* (a + b) + c
LeftGrouped(a, b, c) == SumMap(AddTo(MaterialAdd(dicts, a, b), c))
\* a + (b + c)
RightGroupedOver(a, bc) == SumMap(MaterialAdd(bc.ds, a, bc.obj))
RightGrouped(a, b, c) == RightGroupedOver(a, MaterialAdd(dicts, b, c))

SameKeySet(L, Rt) ==
  /\ UniqueKeys(L) /\ UniqueKeys(Rt)
  /\ DictKeys(L) = DictKeys(Rt)
CloseAt(L, Rt, code) == Close(DictGet(L, code, None), DictGet(Rt, code, None))
\* the maps L of (a + b) + c and Rt of a + (b + c) agree under the codes in K
AgreeOn(L, Rt, K) ==
  /\ SameKeySet(L, Rt)
  /\ \A code \in DictKeys(L) : code \in K => CloseAt(L, Rt, code)
AllCodes(a, b, c) ==
  DictKeys(MapOf(a)) \cup DictKeys(MapOf(b)) \cup DictKeys(MapOf(c))

\* a + b and b + a: equal isotope maps (as dicts) and equal densities
CommutesOver(ab, ba) ==
  /\ SameKeySet(SumMap(ab), SumMap(ba))
  /\ \A code \in DictKeys(SumMap(ab)) :
       DictGet(SumMap(ab), code, None) = DictGet(SumMap(ba), code, None)
  /\ ab.obj.density = ba.obj.density
Commutes(a, b) ==
  CommutesOver(MaterialAdd(dicts, a, b), MaterialAdd(dicts, b, a))

\* the concentrations of a, b and c under code include a positive and a
\* negative one
ValuesAt(a, b, c, code) ==
  {DictGet(MapOf(m), code, RZero) : m \in {a, b, c}}
Cancelling(a, b, c, code) ==
  /\ \E x \in ValuesAt(a, b, c, code) : RLt(RZero, x)
  /\ \E x \in ValuesAt(a, b, c, code) : RLt(x, RZero)

\* the constructors and combinators that return a Material
MaterialOps == {"Material", "MaterialOfMixture", "Material.__mul__",
                "Material.__add__"}
\* the pairs and the triples that the Material just returned completes
NewPairs == {p \in HeldMaterials \X HeldMaterials : NewObj \in {p[1], p[2]}}
NewTriples ==
  {t \in HeldMaterials \X HeldMaterials \X HeldMaterials :
     NewObj \in {t[1], t[2], t[3]}}

\* C12 as stated: for all Materials a, b, c the isotope maps of (a+b)+c and
\* a+(b+c) have the same key set and concentrations equal within the
\* relative tolerance, and a+b and b+a have equal isotope maps and equal
\* densities (checked when the latest of the Materials has been returned).
C12_SumAssociative ==
  Called(MaterialOps) =>
    /\ \A p \in NewPairs : Commutes(p[1], p[2])
    /\ \A t \in NewTriples :
         AgreeOn(LeftGrouped(t[1], t[2], t[3]), RightGrouped(t[1], t[2], t[3]),
                 AllCodes(t[1], t[2], t[3]))

\* C12, amended: a+b and b+a have equal isotope maps and equal densities;
\* (a+b)+c and a+(b+c) have the same key set, and their concentrations are
\* equal within the relative tolerance under every isotope code for which
\* the concentrations of a, b and c do not include both a positive and a
\* negative value (checked when the latest of the Materials has been
\* returned).
C12_SumAssociativeUnlessCancelling ==
  Called(MaterialOps) =>
    /\ \A p \in NewPairs : Commutes(p[1], p[2])
    /\ \A t \in NewTriples :
         AgreeOn(LeftGrouped(t[1], t[2], t[3]), RightGrouped(t[1], t[2], t[3]),
                 {code \in AllCodes(t[1], t[2], t[3]) :
                    ~Cancelling(t[1], t[2], t[3], code)})

\* a sum has been returned, and with two Materials held it groups in two
\* ways: the maps have keys that one of the three lacks, and under a key
\* that all three hold, with no cancellation, the two groupings round to
\* different concentrations
C12_Witness ==
  /\ Called({"Material.__add__"})
  /\ \E a, b \in HeldMaterials :
       /\ DictKeys(MapOf(a)) # DictKeys(MapOf(b))
       /\ \E code \in DictKeys(MapOf(NewObj)) \cap DictKeys(MapOf(a))
                        \cap DictKeys(MapOf(b)) :
            /\ ~Cancelling(NewObj, a, b, code)
            /\ DictGet(LeftGrouped(NewObj, a, b), code, None) #
                 DictGet(RightGrouped(NewObj, a, b), code, None)

\* C13: the legacy calculation never aborts on an isotope below the
\* threshold: every material has its block, whose lines are the isotope
\* lines of the material with a concentration >= the threshold, in
\* ascending order of isotope code.
C13_BelowThresholdOmitted ==
  result.call.op = "ConcentrationConvertor.calculate" =>
    /\ result.ok
    /\ Len(result.val) = Len(Args.materials)
    /\ \A i \in 1..Len(result.val) :
         /\ result.val[i].lines =
              SelectSeq(AllLines(i), LAMBDA line : RGeq(line[2], Args.threshold))
         /\ \A k \in 1..(Len(result.val[i].lines) - 1) :
              IntOf(result.val[i].lines[k][1]) <= IntOf(result.val[i].lines[k + 1][1])

====
